---- MODULE Spec2Model ----
(***************************************************************************)
(* Verification model of the pricing pipeline:                            *)
(*   - Tier Engine      (tier_engine.py: _qualify_tier, assign_tiers)     *)
(*   - Balance Engine   (balance_rules_processor.py)                      *)
(*   - Monthly Grid and Segment Classifier (monthly_user_segmentation.py) *)
(* Each component is a state machine of its own: SpecTier (tiers and      *)
(* counts of assign_tiers), SpecReward (assign_tiers with its rewards),   *)
(* SpecBal (balance engine), SpecSchema (balance engine on a table that   *)
(* lacks a column), SpecGrid (ledger to segmented table), SpecTable       *)
(* (assign_tiers on a table whose rows come in any order) and             *)
(* SpecPipeline (ledger to tiers and rewards, run twice on the same       *)
(* files). The variables of a component that is not running keep their    *)
(* initial values.                                                        *)
(***************************************************************************)
EXTENDS Integers, Sequences, FiniteSets, TLC

VARIABLES
    \* ---- Tier Engine (assign_tiers) ----
    thresholds,     \* the thresholds dict in force for this call
    user_id,        \* user of the group being iterated (0: loop not entered)
    row,            \* the row of user_segments being iterated (NoRow before)
    qualified,      \* _qualify_tier(row, thresholds) of that row
    prev_tier,      \* prev_tier of the loop ("None" before a group's first row)
    results,        \* the results list, one dict per iterated row
    tiers_df,       \* first returned table (<<>> until the loops end)
    counts,         \* second returned table: (year_month, tier) -> users
    tpc,            \* "loop" while the loops run, "done" after the return
    reward_params,  \* the reward_params dict in force for this call
    rewards_df,     \* third returned table (<<>> until the return)
    \* ---- Balance Engine (BalanceRulesProcessor) ----
    rules_file,     \* the rows of the rules CSV the processor is built from
    rules_dict,     \* self.rules_dict: (activity_type, side) -> effect symbol
    df,             \* the transaction table handed to calculate_balances
    processed,      \* the table calculate_balances returns (<<>> before)
    bpc,            \* "new", "ready" (rules loaded) or "done" (returned)
    columns,        \* the columns of the transaction table
    error,          \* the exception calculate_balances raised ("None": none)
    \* ---- Monthly Grid and Segment Classifier (MonthlyUserSegmentation) ----
    monthly_balances,       \* self.monthly_balances (<<>> while it is None)
    monthly_card_spending,  \* self.monthly_card_spending (<<>> while None)
    user_segments,          \* self.user_segments (<<>> while it is None)
    spc,                    \* "new" (object built), "done" (segmented) or "idle"
    last_tx,                \* the last_tx row the loop over the groups took
                            \* in each (user, month) group (<<>> before)
    \* ---- An earlier run of the pipeline on the same input files ----
    first_run               \* the tables the earlier run returned (<<>>: none)

tierVars == <<thresholds, user_id, row, qualified, prev_tier, results,
              tiers_df, counts, tpc, reward_params, rewards_df>>

balVars == <<rules_file, rules_dict, df, processed, bpc, columns, error>>

segVars == <<monthly_balances, monthly_card_spending, user_segments, spc,
             last_tx>>

runVars == <<first_run>>

vars == <<tierVars, balVars, segVars, runVars>>

\* The columns calculate_balances reads from the transaction table.
RequiredColumns ==
    {"user_id", "currency", "created_at", "activity_type", "side", "amount",
     "status"}

\* ------------------------------------------------------------------ bounds
\* Largest year_month of an input row (months are numbered 1..MaxMonth).
MaxMonth == 5
\* Largest number of rows of user_segments in one call.
MaxRows == 5
\* Largest number of rows of the transaction table.
MaxTx == 3

\* ------------------------------------------------------------ Tier Engine
Users == {1, 2}
Months == 1..MaxMonth
\* total_card_spending and end_balance values of the input rows: values on
\* and between the thresholds of both configurations below.
Spends == {0, 300, 1000}
Balances == {0, 500, 2000}

DEFAULT_THRESHOLDS ==
    [tier2_spend |-> 300, tier3_spend |-> 500, tier4_spend |-> 1000,
     tier2_balance |-> 200, tier3_balance |-> 500, tier4_balance |-> 2000]

\* A caller-supplied configuration (pl_simulator_app passes its own dict).
CustomThresholds ==
    [tier2_spend |-> 100, tier3_spend |-> 300, tier4_spend |-> 2000,
     tier2_balance |-> 50, tier3_balance |-> 1000, tier4_balance |-> 2000]

ThresholdConfigs == {DEFAULT_THRESHOLDS, CustomThresholds}

\* Reward rates are held in units of 1/PctScale (0.005 is 50, 0.0015 is 15),
\* and reward amounts in units of 1/PctScale USD (a cent is 100 units).
PctScale == 10000

DEFAULT_REWARD_PARAMS ==
    [tier2_cashback_pct |-> 50, tier3_cashback_pct |-> 100,
     tier4_cashback_pct |-> 200,
     tier2_yield_pct |-> 15, tier3_yield_pct |-> 30, tier4_yield_pct |-> 60]

\* A caller-supplied dict, with rates for tier1 as well.
CustomRewardParams ==
    [tier1_cashback_pct |-> 10, tier2_cashback_pct |-> 100,
     tier3_cashback_pct |-> 200, tier4_cashback_pct |-> 300,
     tier1_yield_pct |-> 5, tier2_yield_pct |-> 20,
     tier3_yield_pct |-> 40, tier4_yield_pct |-> 80]

RewardConfigs == {DEFAULT_REWARD_PARAMS, CustomRewardParams}

TIER_ORDER == <<"tier1", "tier2", "tier3", "tier4">>

TIER_RANK(t) == CHOOSE i \in 1..Len(TIER_ORDER) : TIER_ORDER[i] = t

Tiers == {TIER_ORDER[i] : i \in 1..Len(TIER_ORDER)}

NoRow == [user_id |-> 0, year_month |-> 0, total_card_spending |-> 0,
          end_balance |-> 0]

\* Mutant of _qualify_tier: a tier needs its spend AND its balance threshold.
_qualify_tier_And(r, th) ==
    LET spend == r.total_card_spending
        bal == r.end_balance
    IN  IF spend >= th.tier4_spend /\ bal >= th.tier4_balance THEN "tier4"
        ELSE IF spend >= th.tier3_spend /\ bal >= th.tier3_balance THEN "tier3"
        ELSE IF spend >= th.tier2_spend /\ bal >= th.tier2_balance THEN "tier2"
        ELSE "tier1"

\* _qualify_tier: highest tier met by spend OR balance, tested top down.
_qualify_tier(r, th) ==
    LET spend == r.total_card_spending
        bal == r.end_balance
    IN  IF spend >= th.tier4_spend \/ bal >= th.tier4_balance THEN "tier4"
        ELSE IF spend >= th.tier3_spend \/ bal >= th.tier3_balance THEN "tier3"
        ELSE IF spend >= th.tier2_spend \/ bal >= th.tier2_balance THEN "tier2"
        ELSE "tier1"

\* Mutant of AssignTier: a descent is not capped.
AssignTier_NoCap(prev, qual) ==
    IF prev = "None" THEN "tier4" ELSE qual

\* Mutant of AssignTier: the first row is seeded with its qualifying tier.
AssignTier_SeedQualified(prev, qual) ==
    IF prev = "None"
    THEN qual
    ELSE IF TIER_RANK(qual) > TIER_RANK(prev) \/ TIER_RANK(prev) - TIER_RANK(qual) <= 1
         THEN qual
         ELSE TIER_ORDER[TIER_RANK(prev) - 1]

\* Mutant of AssignTier: the cap test is diff >= 1 with the new rank floored
\* at 1, so a user that still qualifies for the previous tier drops a rank.
AssignTier_OffByOne(prev, qual) ==
    IF prev = "None"
    THEN "tier4"
    ELSE IF TIER_RANK(qual) > TIER_RANK(prev)
         THEN qual
         ELSE IF TIER_RANK(prev) - TIER_RANK(qual) >= 0 /\ TIER_RANK(prev) > 1
              THEN TIER_ORDER[TIER_RANK(prev) - 1]
              ELSE qual

\* Mutant of AssignTier: an ascent is capped at one rank per row, as a
\* descent is.
AssignTier_CappedAscent(prev, qual) ==
    IF prev = "None"
    THEN "tier4"
    ELSE IF TIER_RANK(qual) > TIER_RANK(prev) + 1
         THEN TIER_ORDER[TIER_RANK(prev) + 1]
         ELSE IF TIER_RANK(prev) - TIER_RANK(qual) > 1
              THEN TIER_ORDER[TIER_RANK(prev) - 1]
              ELSE qual

\* The if/else of the loop body: the tier of a row from prev_tier and the
\* row's qualifying tier.
AssignTier(prev, qual) ==
    IF prev = "None"
    THEN "tier4"
    ELSE LET prev_rank == TIER_RANK(prev)
             qual_rank == TIER_RANK(qual)
         IN  IF qual_rank > prev_rank
             THEN qual
             ELSE LET diff == prev_rank - qual_rank
                  IN  IF diff > 1
                      THEN LET new_rank == prev_rank - 1
                           \* TIER_ORDER[new_rank - 1] of the 0-based list
                           IN  TIER_ORDER[new_rank]
                      ELSE qual

\* Mutant of TierCounts: the users of a tier are counted over all months.
TierCounts_AllMonths(t) ==
    LET keys == {<<t[i].year_month, t[i].tier>> : i \in 1..Len(t)}
    IN  [k \in keys |->
            Cardinality({t[i].user_id : i \in
                {j \in 1..Len(t) : t[j].tier = k[2]}})]

\* tiers_df.groupby(['year_month','tier'])['user_id'].nunique()
TierCounts(t) ==
    LET keys == {<<t[i].year_month, t[i].tier>> : i \in 1..Len(t)}
    IN  [k \in keys |->
            Cardinality({t[i].user_id : i \in
                {j \in 1..Len(t) : t[j].year_month = k[1] /\ t[j].tier = k[2]}})]

InitTier ==
    /\ last_tx = <<>>
    /\ first_run = <<>>
    /\ thresholds \in ThresholdConfigs
    /\ user_id = 0
    /\ row = NoRow
    /\ qualified = "None"
    /\ prev_tier = "None"
    /\ results = <<>>
    /\ tiers_df = <<>>
    /\ counts = <<>>
    /\ tpc = "loop"
    /\ reward_params = DEFAULT_REWARD_PARAMS
    /\ rewards_df = <<>>
    /\ rules_file = <<>>
    /\ rules_dict = <<>>
    /\ df = <<>>
    /\ processed = <<>>
    /\ bpc = "idle"
    /\ columns = RequiredColumns
    /\ error = "None"
    /\ monthly_balances = <<>>
    /\ monthly_card_spending = <<>>
    /\ user_segments = <<>>
    /\ spc = "idle"

\* Mutant of LoopBody: results is keyed by user, so the row of a later month
\* of a user replaces the row of the month before.
LoopBody_KeyedByUser(r, prev) ==
    LET q == _qualify_tier(r, thresholds)
        tier == AssignTier(prev, q)
        new == [user_id |-> r.user_id, year_month |-> r.year_month, tier |-> tier]
    IN  /\ row' = r
        /\ qualified' = q
        /\ results' = IF results # <<>> /\ prev # "None"
                         THEN Append(SubSeq(results, 1, Len(results) - 1), new)
                         ELSE Append(results, new)
        /\ prev_tier' = tier
        /\ user_id' = r.user_id

\* One iteration of the inner loop on row r, with prev the value prev_tier
\* has when the iteration starts.
LoopBody(r, prev) ==
    LET q == _qualify_tier(r, thresholds)
        tier == AssignTier(prev, q)
    IN  /\ row' = r
        /\ qualified' = q
        /\ results' = Append(results,
               [user_id |-> r.user_id, year_month |-> r.year_month, tier |-> tier])
        /\ prev_tier' = tier
        /\ user_id' = r.user_id

\* The outer loop enters the next group (groupby yields the users in
\* ascending order), resets prev_tier and iterates the group's first row.
\* The rows reach the loops in the order sort_values(['user_id',
\* 'year_month']) has put them in.
GroupFirstRow ==
    /\ tpc = "loop"
    /\ Len(results) < MaxRows
    /\ \E u \in Users, ym \in Months, s \in Spends, b \in Balances :
          /\ u > user_id
          /\ LoopBody([user_id |-> u, year_month |-> ym,
                       total_card_spending |-> s, end_balance |-> b], "None")
    /\ UNCHANGED <<thresholds, tiers_df, counts, tpc, reward_params, rewards_df,
                 balVars, segVars, runVars>>

\* The inner loop iterates the next row of the current group; the rows of a
\* group come in ascending year_month (sort_values) and the keys
\* (user_id, year_month) of user_segments are unique.
GroupNextRow ==
    /\ tpc = "loop"
    /\ user_id # 0
    /\ Len(results) < MaxRows
    /\ \E ym \in Months, s \in Spends, b \in Balances :
          /\ ym > row.year_month
          /\ LoopBody([user_id |-> user_id, year_month |-> ym,
                       total_card_spending |-> s, end_balance |-> b], prev_tier)
    /\ UNCHANGED <<thresholds, tiers_df, counts, tpc, reward_params, rewards_df,
                 balVars, segVars, runVars>>

\* Both loops are exhausted: tiers_df and counts are built and returned
\* (SpecReward follows the rewards table of the same return, ReturnRewards).
ReturnTiers ==
    /\ tpc = "loop"
    /\ results # <<>>
    /\ tiers_df' = results
    /\ counts' = TierCounts(results)
    /\ tpc' = "done"
    /\ UNCHANGED <<thresholds, user_id, row, qualified, prev_tier, results,
                 reward_params, rewards_df, balVars, segVars, runVars>>

NextTier == GroupFirstRow \/ GroupNextRow \/ ReturnTiers

SpecTier == InitTier /\ [][NextTier]_vars

\* ------------------------------------------------- Tier Engine: properties
Rank(t) == TIER_RANK(t)

\* TRUE iff results[i] is the first row of its user's group.
IsFirstOfUser(i) == i = 1 \/ results[i - 1].user_id # results[i].user_id

\* C1: for every pair of consecutive rows of one user, the assigned tier of
\* the later row is at most one rank below the tier of the earlier row.
C1_DescentAtMostOneRank ==
    \A i \in 2..Len(results) :
        results[i - 1].user_id = results[i].user_id
            => Rank(results[i].tier) >= Rank(results[i - 1].tier) - 1

\* C1 witness: the call has returned, and its last row qualified at least two
\* ranks below the previous tier of the same user (tier4) and was assigned
\* tier3.
C1_Witness ==
    /\ tpc = "done"
    /\ Len(tiers_df) >= 3
    /\ ~IsFirstOfUser(Len(results))
    /\ results[Len(results) - 1].tier = "tier4"
    /\ qualified \in {"tier1", "tier2"}
    /\ results[Len(results)].tier = "tier3"

\* C2: the first row of every user is assigned tier4, whatever the row
\* qualifies for and whatever the thresholds are.
C2_FirstRowIsTier4 ==
    \A i \in 1..Len(results) : IsFirstOfUser(i) => results[i].tier = "tier4"

\* C2 witness: the first row of the second user qualifies for tier1 only,
\* under the caller-supplied thresholds, and is assigned tier4.
C2_Witness ==
    /\ thresholds = CustomThresholds
    /\ Len(results) >= 2
    /\ IsFirstOfUser(Len(results))
    /\ row.user_id = 2
    /\ qualified = "tier1"
    /\ results[Len(results)].tier = "tier4"

\* C3: on a non-initial row, with prev the tier of the user's preceding row
\* and Q the row's qualifying tier, the assigned tier is Q when
\* rank(Q) > rank(prev), the tier of rank rank(prev)-1 when
\* rank(prev) - rank(Q) > 1, and Q otherwise.
C3_TransitionRule ==
    LET n == Len(results)
    IN  (n >= 2 /\ ~IsFirstOfUser(n)) =>
            LET prev == results[n - 1].tier
                got == results[n].tier
            IN  /\ Rank(qualified) > Rank(prev) => got = qualified
                /\ Rank(prev) - Rank(qualified) > 1
                       => Rank(got) = Rank(prev) - 1
                /\ (Rank(qualified) <= Rank(prev)
                       /\ Rank(prev) - Rank(qualified) <= 1) => got = qualified

\* C3 witness: a user that has decayed to tier1 qualifies for tier4 and is
\* upgraded by three ranks in one step.
C3_Witness ==
    /\ Len(results) >= 2
    /\ ~IsFirstOfUser(Len(results))
    /\ results[Len(results) - 1].tier = "tier1"
    /\ qualified = "tier4"
    /\ results[Len(results)].tier = "tier4"

\* C26: the tier assigned to a row is never below the row's qualifying
\* tier, on the first row of a user and after every transition.
C26_AssignedAtLeastQualifying ==
    results # <<>> => Rank(results[Len(results)].tier) >= Rank(qualified)

\* C26 witness: the call has iterated a first row that is assigned tier4
\* while it qualifies for tier1, then a row of the same user that is held
\* one rank above its qualifying tier, then a row that is upgraded to its
\* qualifying tier.
C26_Witness ==
    /\ Len(results) >= 3
    /\ ~IsFirstOfUser(Len(results)) /\ ~IsFirstOfUser(Len(results) - 1)
    /\ results[Len(results) - 2].tier = "tier4"
    /\ results[Len(results) - 1].tier = "tier3"
    /\ Rank(qualified) = 4
    /\ results[Len(results)].tier = qualified

SpendThreshold(th, t) ==
    CASE t = "tier2" -> th.tier2_spend
      [] t = "tier3" -> th.tier3_spend
      [] t = "tier4" -> th.tier4_spend

BalanceThreshold(th, t) ==
    CASE t = "tier2" -> th.tier2_balance
      [] t = "tier3" -> th.tier3_balance
      [] t = "tier4" -> th.tier4_balance

\* The tiers above tier1 whose spend or balance threshold the row meets.
TiersMet(r, th) ==
    {t \in {"tier2", "tier3", "tier4"} :
        \/ r.total_card_spending >= SpendThreshold(th, t)
        \/ r.end_balance >= BalanceThreshold(th, t)}

\* C4: the qualifying tier of the iterated row is the highest tier of
\* tier4, tier3, tier2 whose spend OR balance threshold the row meets, and
\* tier1 when none is met; it is determined by the row and the thresholds.
C4_QualifyingTier ==
    row # NoRow =>
        LET met == TiersMet(row, thresholds)
        IN  /\ met = {} => qualified = "tier1"
            /\ met # {} =>
                  /\ qualified \in met
                  /\ \A t \in met : Rank(t) <= Rank(qualified)

\* C4 witness: a row whose balance alone reaches a tier (its spend does
\* not), while its spend reaches a lower tier: the higher one wins.
C4_Witness ==
    /\ row # NoRow
    /\ qualified = "tier3"
    /\ row.total_card_spending < SpendThreshold(thresholds, "tier3")
    /\ row.total_card_spending >= SpendThreshold(thresholds, "tier2")
    /\ row.end_balance >= BalanceThreshold(thresholds, "tier3")
    /\ Len(results) >= 2
    /\ results[Len(results) - 1].tier = "tier4"

CountAt(m, t) == IF <<m, t>> \in DOMAIN counts THEN counts[<<m, t>>] ELSE 0

UsersAt(m, t) ==
    {u \in Users : \E i \in 1..Len(tiers_df) :
        tiers_df[i] = [user_id |-> u, year_month |-> m, tier |-> t]}

UsersIn(m) == {u \in Users : \E i \in 1..Len(tiers_df) :
                  tiers_df[i].user_id = u /\ tiers_df[i].year_month = m}

\* C5: the returned tier-count table has a row for exactly the (month, tier)
\* pairs that have at least one user, holding the number of distinct users
\* assigned that tier in that month; per month the counts of all tiers sum
\* to the number of distinct users with a tier row in that month.
C5_TierCounts ==
    tpc = "done" =>
        /\ \A m \in Months, t \in Tiers :
              /\ <<m, t>> \in DOMAIN counts <=> UsersAt(m, t) # {}
              /\ CountAt(m, t) = Cardinality(UsersAt(m, t))
        /\ \A m \in Months :
              CountAt(m, "tier1") + CountAt(m, "tier2") + CountAt(m, "tier3")
                  + CountAt(m, "tier4") = Cardinality(UsersIn(m))

\* C5 witness: two users hold tier4 in the same month (count 2) and one of
\* them holds tier4 in another month as well.
C5_Witness ==
    /\ tpc = "done"
    /\ \E m \in Months :
          /\ CountAt(m, "tier4") = 2
          /\ \E m2 \in Months \ {m} : CountAt(m2, "tier4") = 1
          /\ \E m3 \in Months : CountAt(m3, "tier3") = 1

\* --------------------------------------------------------- Balance Engine
\* Rows of the rules CSV: activity_type; side; efecto (+ / - / 0).
Rule(a, s, e) == [activity_type |-> a, side |-> s, effect |-> e]

\* The rules the tests rely on (card/debit is "-", card/credit is "+").
ProjectRules ==
    <<Rule("card", "debit", "-"), Rule("card", "credit", "+"),
      Rule("card", "hold_captured", "-")>>

\* Another rules file: a key given twice (the later row wins), no row for
\* card/credit, and a symbol outside + / - / 0.
OtherRules ==
    <<Rule("card", "debit", "0"), Rule("foo", "bar", "-"),
      Rule("card", "debit", "+"), Rule("card", "hold_captured", "?")>>

RuleFiles == {ProjectRules, OtherRules}

ActivityTypes == {"card", "foo"}
Sides == {"debit", "credit", "hold_captured", "bar"}

\* created_at values; equal values are ties of the sort.
Timestamps == {1, 2}

\* (activity_type, side, status, amount) of the transactions of the model.
TxKinds ==
    {<<"card", "debit", "settled", 100>>,
     <<"card", "credit", "settled", -20>>,
     <<"card", "debit", "pending", 80>>}

\* The (user_id, currency) pairs of the transactions of the model.
TxPartitions == {<<1, "eUSD">>, <<1, "USDC">>, <<2, "eUSD">>}

\* _load_rules: rules_dict[key] = effect for every row, in file order, so
\* the last row of a key is the one that stays.
_load_rules(file) ==
    LET keys == {<<file[i].activity_type, file[i].side>> : i \in 1..Len(file)}
        last(k) == CHOOSE i \in 1..Len(file) :
                      /\ <<file[i].activity_type, file[i].side>> = k
                      /\ \A j \in (i + 1)..Len(file) :
                            <<file[j].activity_type, file[j].side>> # k
    IN  [k \in keys |-> file[last(k)].effect]

\* Mutant of get_effect: a pair that is not in the table counts as "+".
get_effect_DefaultPlus(activity_type, side) ==
    LET key == <<activity_type, side>>
        effect == IF key \in DOMAIN rules_dict THEN rules_dict[key] ELSE "+"
    IN  IF effect = "+" THEN 1
        ELSE IF effect = "-" THEN -1
        ELSE 0

\* get_effect: rules_dict.get(key, '0'), then '+' -> 1, '-' -> -1, else 0.
get_effect(activity_type, side) ==
    LET key == <<activity_type, side>>
        effect == IF key \in DOMAIN rules_dict THEN rules_dict[key] ELSE "0"
    IN  IF effect = "+" THEN 1
        ELSE IF effect = "-" THEN -1
        ELSE 0

abs(x) == IF x < 0 THEN -x ELSE x

\* Mutant of apply_rules_to_transaction: the amount is used with its sign.
apply_rules_SignedAmount(r) ==
    IF r.status # "settled"
    THEN 0
    ELSE r.amount * get_effect(r.activity_type, r.side)

\* apply_rules_to_transaction: 0 unless settled, else abs(amount) * effect.
apply_rules_to_transaction(r) ==
    IF r.status # "settled"
    THEN 0
    ELSE LET effect == get_effect(r.activity_type, r.side)
         IN  abs(r.amount) * effect

\* Order of the currency strings (Python compares them by code point, so
\* upper case sorts before lower case).
CurrencyOrder == <<"USDC", "eUSD">>
CurrencyRank(c) == CHOOSE i \in 1..Len(CurrencyOrder) : CurrencyOrder[i] = c

\* Lexicographic order of the sort key (user_id, currency, created_at).
KeyLess(a, b) ==
    \/ a.user_id < b.user_id
    \/ /\ a.user_id = b.user_id
       /\ \/ CurrencyRank(a.currency) < CurrencyRank(b.currency)
          \/ /\ a.currency = b.currency
             /\ a.created_at < b.created_at

\* The table with the index label (the input position) of every row.
RECURSIVE with_index(_, _)
with_index(t, n) ==
    IF n = 0
    THEN <<>>
    ELSE Append(with_index(t, n - 1), [index |-> n] @@ t[n])

\* Mutant of InsertRow: the row is put before the rows of equal key (the
\* sort is not stable).
InsertRow_Unstable(s, r) ==
    LET k == Cardinality({i \in 1..Len(s) : KeyLess(s[i], r)})
    IN  SubSeq(s, 1, k) \o <<r>> \o SubSeq(s, k + 1, Len(s))

\* The sorted table s with row r, which follows all rows of s in the input,
\* put behind every row whose key is not greater than its own.
InsertRow(s, r) ==
    LET k == Cardinality({i \in 1..Len(s) : ~KeyLess(r, s[i])})
    IN  SubSeq(s, 1, k) \o <<r>> \o SubSeq(s, k + 1, Len(s))

RECURSIVE SortRows(_, _)
SortRows(t, n) ==
    IF n = 0 THEN <<>> ELSE InsertRow(SortRows(t, n - 1), t[n])

\* df.sort_values(['user_id','currency','created_at']): a sort on several
\* columns is a lexsort, which is stable; every row keeps its index label.
sort_values(t) == SortRows(with_index(t, Len(t)), Len(t))

\* df['signed_amount'] = df.apply(self.apply_rules_to_transaction, axis=1)
RECURSIVE apply_rows(_, _)
apply_rows(t, n) ==
    IF n = 0
    THEN <<>>
    ELSE Append(apply_rows(t, n - 1),
                [signed_amount |-> apply_rules_to_transaction(t[n])] @@ t[n])

\* Mutant of group_cumsum: one running sum over the whole table.
group_cumsum_Ungrouped(s, r) ==
    IF s = <<>> THEN r.signed_amount ELSE s[Len(s)].balance + r.signed_amount

\* Mutant of group_cumsum: the groups are the users, whatever the currency.
group_cumsum_ByUser(s, r) ==
    LET earlier == {q \in 1..Len(s) : s[q].user_id = r.user_id}
    IN  IF earlier = {}
        THEN r.signed_amount
        ELSE LET q == CHOOSE q \in earlier : \A x \in earlier : x <= q
             IN  s[q].balance + r.signed_amount

\* The running sum of the group of row r after the rows of s.
group_cumsum(s, r) ==
    LET earlier == {q \in 1..Len(s) : /\ s[q].user_id = r.user_id
                                      /\ s[q].currency = r.currency}
    IN  IF earlier = {}
        THEN r.signed_amount
        ELSE LET q == CHOOSE q \in earlier : \A x \in earlier : x <= q
             IN  s[q].balance + r.signed_amount

\* df['balance'] = df.groupby(['user_id','currency'])['signed_amount'].cumsum()
RECURSIVE cumsum_rows(_, _)
cumsum_rows(t, n) ==
    IF n = 0
    THEN <<>>
    ELSE LET s == cumsum_rows(t, n - 1)
         IN  Append(s, [balance |-> group_cumsum(s, t[n])] @@ t[n])

\* What calculate_balances reads, in order: sort_values reads its three key
\* columns; apply_rules_to_transaction reads status of every row, and
\* activity_type, side and amount of a settled row. Reading a column the
\* table does not have raises KeyError.
KeyError(t, cols) ==
    \/ ~({"user_id", "currency", "created_at"} \subseteq cols)
    \/ "status" \notin cols
    \/ /\ \E i \in 1..Len(t) : t[i].status = "settled"
       /\ ~({"activity_type", "side", "amount"} \subseteq cols)

\* calculate_balances: sort, signed_amount per row, balance per group.
calculate_balances(t) ==
    LET sorted == sort_values(t)
        signed == apply_rows(sorted, Len(sorted))
    IN  cumsum_rows(signed, Len(signed))

InitBal ==
    /\ last_tx = <<>>
    /\ first_run = <<>>
    /\ rules_file \in RuleFiles
    /\ rules_dict = <<>>
    /\ df = <<>>
    /\ processed = <<>>
    /\ bpc = "new"
    /\ columns = RequiredColumns
    /\ error = "None"
    /\ thresholds = DEFAULT_THRESHOLDS
    /\ user_id = 0
    /\ row = NoRow
    /\ qualified = "None"
    /\ prev_tier = "None"
    /\ results = <<>>
    /\ tiers_df = <<>>
    /\ counts = <<>>
    /\ tpc = "idle"
    /\ reward_params = DEFAULT_REWARD_PARAMS
    /\ rewards_df = <<>>
    /\ monthly_balances = <<>>
    /\ monthly_card_spending = <<>>
    /\ user_segments = <<>>
    /\ spc = "idle"

\* BalanceRulesProcessor(rules_file): the constructor loads the rules.
Construct ==
    /\ bpc = "new"
    /\ rules_dict' = _load_rules(rules_file)
    /\ bpc' = "ready"
    /\ UNCHANGED <<rules_file, df, processed, columns, error, tierVars, segVars, runVars>>

\* One more row of the transactions file is read into the table.
ReadTransaction ==
    /\ bpc = "ready"
    /\ Len(df) < MaxTx
    /\ \E part \in TxPartitions, ts \in Timestamps, k \in TxKinds :
          df' = Append(df, [user_id |-> part[1], currency |-> part[2],
                            created_at |-> ts, activity_type |-> k[1],
                            side |-> k[2], status |-> k[3], amount |-> k[4]])
    /\ UNCHANGED <<rules_file, rules_dict, processed, bpc, columns, error,
                   tierVars, segVars, runVars>>

\* processor.calculate_balances(df)
CalculateBalances ==
    /\ bpc = "ready"
    /\ df # <<>>
    /\ IF KeyError(df, columns)
         THEN error' = "KeyError" /\ processed' = <<>>
         ELSE error' = "None" /\ processed' = calculate_balances(df)
    /\ bpc' = "done"
    /\ UNCHANGED <<rules_file, rules_dict, df, columns, tierVars, segVars, runVars>>

NextBal == Construct \/ ReadTransaction \/ CalculateBalances

SpecBal == InitBal /\ [][NextBal]_vars

\* ---------------------------------------------- Balance Engine: properties
SamePartition(a, b) == a.user_id = b.user_id /\ a.currency = b.currency

\* The positions of the output table that belong to the partition of row p.
PartitionOf(p) ==
    {q \in 1..Len(processed) : SamePartition(processed[q], processed[p])}

IsLastOfPartition(p) == \A q \in PartitionOf(p) : q <= p

RECURSIVE SumSigned(_)
SumSigned(S) ==
    IF S = {}
    THEN 0
    ELSE LET q == CHOOSE q \in S : TRUE
         IN  processed[q].signed_amount + SumSigned(S \ {q})

Magnitude(x) == IF x >= 0 THEN x ELSE 0 - x

\* C6: get_effect answers every (activity_type, side) pair, in the rule
\* table or not, with one of -1, 0, +1: +1 for "+", -1 for "-", and 0 for a
\* pair that is not in the table.
C6_GetEffectTotal ==
    \A a \in ActivityTypes, s \in Sides :
        LET key == <<a, s>>
            e == get_effect(a, s)
        IN  /\ e \in {-1, 0, 1}
            /\ (key \in DOMAIN rules_dict /\ rules_dict[key] = "+") => e = 1
            /\ (key \in DOMAIN rules_dict /\ rules_dict[key] = "-") => e = -1
            /\ key \notin DOMAIN rules_dict => e = 0

\* C6 witness: a settled transaction whose pair is not in the loaded table
\* has been given no effect, and a settled transaction of a "+" pair a
\* positive one.
C6_Witness ==
    /\ bpc = "done"
    /\ rules_file = OtherRules
    /\ \E p, q \in 1..Len(processed) :
          /\ processed[p].status = "settled"
          /\ <<processed[p].activity_type, processed[p].side>>
                 \notin DOMAIN rules_dict
          /\ processed[p].signed_amount = 0
          /\ processed[q].signed_amount > 0

\* C7: calculate_balances returns one row per input transaction, and the
\* row's signed_amount is 0 when the status is not "settled" and
\* effect(activity_type, side) * |amount| when it is; the sign of the input
\* amount does not change it.
C7_SignedAmount ==
    bpc = "done" =>
        /\ Len(processed) = Len(df)
        /\ \A i \in 1..Len(df) :
              /\ Cardinality({p \in 1..Len(processed) : processed[p].index = i}) = 1
              /\ \A p \in 1..Len(processed) : processed[p].index = i =>
                    /\ processed[p].user_id = df[i].user_id
                    /\ processed[p].currency = df[i].currency
                    /\ processed[p].created_at = df[i].created_at
                    /\ processed[p].activity_type = df[i].activity_type
                    /\ processed[p].side = df[i].side
                    /\ processed[p].amount = df[i].amount
                    /\ processed[p].status = df[i].status
                    /\ processed[p].signed_amount =
                          IF df[i].status # "settled"
                          THEN 0
                          ELSE get_effect(df[i].activity_type, df[i].side)
                                   * Magnitude(df[i].amount)
                    /\ apply_rules_to_transaction(
                           [df[i] EXCEPT !.amount = 0 - df[i].amount])
                          = processed[p].signed_amount

\* C7 witness: a settled transaction with a negative amount got a positive
\* signed_amount, and a pending transaction whose pair has a non-zero
\* effect got 0.
C7_Witness ==
    /\ bpc = "done"
    /\ \E p, q \in 1..Len(processed) :
          /\ processed[p].status = "settled"
          /\ processed[p].amount < 0
          /\ processed[p].signed_amount > 0
          /\ processed[q].status # "settled"
          /\ get_effect(processed[q].activity_type, processed[q].side) # 0
          /\ processed[q].signed_amount = 0

\* C8: in the output every (user_id, currency) partition is in ascending
\* timestamp order and the balance of a row is the sum of the signed_amount
\* of the rows of its partition up to and including that row; rows of other
\* partitions do not contribute.
C8_RunningBalance ==
    bpc = "done" =>
        \A p \in 1..Len(processed) :
            /\ \A q \in PartitionOf(p) :
                  q < p => processed[q].created_at <= processed[p].created_at
            /\ processed[p].balance = SumSigned({q \in PartitionOf(p) : q <= p})

\* C8 witness: a row whose partition holds an earlier row, while a row of
\* another partition with a non-zero signed_amount precedes it in the table.
C8_Witness ==
    /\ bpc = "done"
    /\ \E p, q, o \in 1..Len(processed) :
          /\ q < p /\ o < p
          /\ q \in PartitionOf(p)
          /\ o \notin PartitionOf(p)
          /\ processed[q].signed_amount # 0
          /\ processed[o].signed_amount # 0
          /\ processed[p].signed_amount # 0
          /\ processed[p].balance
                 = processed[q].signed_amount + processed[p].signed_amount

\* The input table t with the rows at positions i and i + 1 exchanged.
ExchangeRows(t, i) ==
    [j \in 1..Len(t) |-> IF j = i THEN t[i + 1]
                         ELSE IF j = i + 1 THEN t[i]
                         ELSE t[j]]

\* TRUE iff row p is the last row of its (user_id, currency) partition in
\* the table out.
IsLastIn(out, p) ==
    \A q \in 1..Len(out) :
        (out[q].user_id = out[p].user_id /\ out[q].currency = out[p].currency)
            => q <= p

\* The final balances of the table out: (user_id, currency, balance) of the
\* last row of every partition.
FinalBalances(out) ==
    {<<out[p].user_id, out[p].currency, out[p].balance>> :
        p \in {q \in 1..Len(out) : IsLastIn(out, q)}}

\* C9: the balance on the last row of every partition is the sum of all
\* signed_amount of the partition, and the final balances are the same for
\* every permutation of the input rows. (Every table of the model is a
\* reachable input and every permutation is a product of exchanges of two
\* adjacent rows, so the final balances being unchanged by each such
\* exchange at every reachable table is invariance under all permutations.)
C9_FinalBalance ==
    bpc = "done" =>
        /\ \A p \in 1..Len(processed) :
              IsLastOfPartition(p)
                  => processed[p].balance = SumSigned(PartitionOf(p))
        /\ \A i \in 1..(Len(df) - 1) :
              FinalBalances(calculate_balances(ExchangeRows(df, i)))
                  = FinalBalances(processed)

\* C9 witness: a partition of two transactions with different non-zero
\* signed amounts that were given latest first.
C9_Witness ==
    /\ bpc = "done"
    /\ \E p, q \in 1..Len(processed) :
          /\ q < p
          /\ q \in PartitionOf(p)
          /\ IsLastOfPartition(p)
          /\ processed[q].index > processed[p].index
          /\ processed[q].signed_amount # 0
          /\ processed[p].signed_amount # 0
          /\ processed[q].signed_amount # processed[p].signed_amount
          /\ processed[p].balance
                 = processed[q].signed_amount + processed[p].signed_amount

\* C10: within a partition the output is in ascending timestamp order, two
\* transactions with the same timestamp stay in their input order, and the
\* running balance is accumulated in that order.
C10_StableOrder ==
    bpc = "done" =>
        \A p \in 1..Len(processed) : \A q \in PartitionOf(p) :
            q < p =>
                /\ processed[q].created_at <= processed[p].created_at
                /\ processed[q].created_at = processed[p].created_at
                       => processed[q].index < processed[p].index
                /\ (\A x \in PartitionOf(p) : ~(q < x /\ x < p))
                       => processed[p].balance
                              = processed[q].balance + processed[p].signed_amount

\* C10 witness: two transactions of one partition with the same timestamp
\* and different non-zero signed amounts, behind a transaction of the same
\* partition that was given after them but has an earlier timestamp.
C10_Witness ==
    /\ bpc = "done"
    /\ \E e, q, p \in 1..Len(processed) :
          /\ e < q /\ q < p
          /\ q \in PartitionOf(p) /\ e \in PartitionOf(p)
          /\ processed[e].index > processed[p].index
          /\ processed[q].created_at = processed[p].created_at
          /\ processed[q].signed_amount # 0
          /\ processed[p].signed_amount # 0
          /\ processed[q].signed_amount # processed[p].signed_amount
          /\ processed[q].balance # processed[p].signed_amount

\* =================================================== Monthly Grid ========
\* Largest number of rows of the ledger the grid is computed from.
MaxLedger == 3

\* created_at values of the ledger rows.
LedgerStamps == {1, 2, 3, 5}

\* created_at.dt.to_period('M'): the calendar month a timestamp falls in
\* (stamps 1 and 2 are in month 1, 3 and 4 in month 2, 5 and 6 in month 3).
to_period(ts) == (ts + 1) \div 2

\* The transactions a ledger row is drawn from:
\* <<user_id, currency, activity_type, side, status, amount>>.
LedgerKinds ==
    { <<1, "eUSD", "card", "credit", "settled", 500>>,
      <<1, "eUSD", "card", "debit", "settled", 100>>,
      <<1, "eUSD", "card", "hold_captured", "settled", -30>>,
      <<1, "eUSD", "card", "debit", "pending", 80>>,
      <<1, "USDC", "card", "debit", "settled", 20>>,
      <<2, "eUSD", "card", "credit", "settled", 20>>,
      <<2, "eUSD", "card", "debit", "pending", 80>> }

\* The elements of a finite set of integers, ascending.
RECURSIVE Ascending(_)
Ascending(S) ==
    IF S = {} THEN <<>>
    ELSE LET m == CHOOSE x \in S : \A y \in S : x <= y
         IN  <<m>> \o Ascending(S \ {m})

\* eusd_df: the settled eUSD rows of self.df, with their year_month.
eusd_df(t) ==
    SelectSeq(t, LAMBDA r : r.currency = "eUSD" /\ r.status = "settled")

\* The rows of one (user_id, year_month) group of a table.
MonthGroup(t, u, ym) ==
    { t[i] : i \in { j \in 1..Len(t) :
                       t[j].user_id = u /\ to_period(t[j].created_at) = ym } }

\* The keys groupby(['user_id', 'year_month']) finds in a table.
MonthKeys(t) ==
    { <<t[i].user_id, to_period(t[i].created_at)>> : i \in 1..Len(t) }

\* group.sort_values('created_at').iloc[-1]: a single-column sort is not
\* stable, so any row of the group with the greatest created_at can come
\* last.
LastTx_First(g) == { r \in g : \A q \in g : r.created_at <= q.created_at }
LastTx(g) == { r \in g : \A q \in g : q.created_at <= r.created_at }

\* One outcome of the loop over the groups: the row taken as last_tx in each.
LastTxPicks(t) ==
    LET e == eusd_df(t)
        rows == { e[i] : i \in 1..Len(e) }
    IN  { f \in [MonthKeys(e) -> rows] :
            \A k \in MonthKeys(e) : f[k] \in LastTx(MonthGroup(e, k[1], k[2])) }

\* eusd_df['user_id'].unique(): the users of the grid.
unique_users(t) == { eusd_df(t)[i].user_id : i \in 1..Len(eusd_df(t)) }

\* Mutant of all_months: only the months that have a settled eUSD row.
all_months_Observed(t) == { k[2] : k \in MonthKeys(eusd_df(t)) }

\* pd.period_range(year_month.min(), year_month.max(), freq='M')
all_months(t) ==
    LET ms == { k[2] : k \in MonthKeys(eusd_df(t)) }
        lo == CHOOSE m \in ms : \A o \in ms : m <= o
        hi == CHOOSE m \in ms : \A o \in ms : o <= m
    IN  lo..hi

\* MultiIndex.from_product([unique_users, all_months]) after
\* sort_values(['user_id', 'year_month']): one row per user and month.
RECURSIVE full_index(_, _)
full_index(us, ms) ==
    IF Len(us) = 0 THEN <<>>
    ELSE [ i \in 1..Len(ms) |-> [user_id |-> us[1], year_month |-> ms[i]] ]
         \o full_index(Tail(us), ms)

\* full_index.merge(self.monthly_balances, how='left'): a row of the grid
\* gets the end_balance recorded for its key, and none (NaN) without one.
RECURSIVE merge_balances(_, _, _)
merge_balances(idx, keys, pick) ==
    IF idx = <<>> THEN <<>>
    ELSE LET k == <<idx[1].user_id, idx[1].year_month>>
             r == IF k \in keys
                    THEN idx[1] @@ [end_balance |-> pick[k].balance]
                    ELSE idx[1]
         IN  <<r>> \o merge_balances(Tail(idx), keys, pick)

isna(r) == "end_balance" \notin DOMAIN r

\* groupby('user_id')['end_balance'].ffill().fillna(0) on the sorted grid:
\* n rows of t filled, each from the closest earlier row of its user.
RECURSIVE ffill_fillna_NoFill(_, _)
ffill_fillna_NoFill(t, n) ==
    IF n = 0 THEN <<>>
    ELSE Append(ffill_fillna_NoFill(t, n - 1),
                IF isna(t[n]) THEN t[n] @@ [end_balance |-> 0] ELSE t[n])

RECURSIVE ffill_fillna(_, _)
ffill_fillna(t, n) ==
    IF n = 0 THEN <<>>
    ELSE LET done == ffill_fillna(t, n - 1)
             v == IF ~isna(t[n]) THEN t[n].end_balance
                  ELSE IF n > 1 /\ done[n - 1].user_id = t[n].user_id
                         THEN done[n - 1].end_balance
                         ELSE 0
         IN  Append(done, [user_id |-> t[n].user_id,
                           year_month |-> t[n].year_month,
                           end_balance |-> v])

\* calculate_monthly_balances() on the processed ledger t, when the loop
\* over the groups takes pick[k] as the last transaction of group k.
calculate_monthly_balances(t, pick) ==
    LET idx == full_index(Ascending(unique_users(t)), Ascending(all_months(t)))
        full == merge_balances(idx, MonthKeys(eusd_df(t)), pick)
    IN  ffill_fillna(full, Len(full))

\* ------------------------------------------------ monthly card spending
\* The rows calculate_monthly_card_spending keeps.
card_spending(t) ==
    SelectSeq(t, LAMBDA r : /\ r.activity_type = "card"
                            /\ r.side \in {"hold_captured", "debit"}
                            /\ r.status = "settled"
                            /\ r.currency = "eUSD")

RECURSIVE SumAmount(_)
SumAmount(g) ==
    IF g = {} THEN 0
    ELSE LET r == CHOOSE x \in g : TRUE IN r.amount + SumAmount(g \ {r})

\* groupby(['user_id', 'year_month']).agg(amount: abs(x.sum()),
\* created_at: count) of one group.
agg_spending_SignedSum(u, ym, g) ==
    [user_id |-> u, year_month |-> ym,
     total_card_spending |-> SumAmount(g), card_tx_count |-> Cardinality(g)]

agg_spending(u, ym, g) ==
    [user_id |-> u, year_month |-> ym,
     total_card_spending |-> abs(SumAmount(g)), card_tx_count |-> Cardinality(g)]

\* calculate_monthly_card_spending(): one row per group of card_spending,
\* the groups in ascending (user_id, year_month).
RECURSIVE spending_rows(_, _)
spending_rows(cs, idx) ==
    IF idx = <<>> THEN <<>>
    ELSE LET g == MonthGroup(cs, idx[1].user_id, idx[1].year_month)
         IN  (IF g = {} THEN <<>>
              ELSE <<agg_spending(idx[1].user_id, idx[1].year_month, g)>>)
             \o spending_rows(cs, Tail(idx))

calculate_monthly_card_spending(t) ==
    LET cs == card_spending(t)
        us == { k[1] : k \in MonthKeys(cs) }
        ms == { k[2] : k \in MonthKeys(cs) }
    IN  spending_rows(cs, full_index(Ascending(us), Ascending(ms)))

\* ------------------------------------------------ Segment Classifier
\* float('inf'): above every amount of the model.
inf == 1000000

BALANCE_BINS == <<0, 10, 100, 500, 1000, 3000, 10000, inf>>
BALANCE_LABELS == <<"<10", "<100", "<500", "<1k", "<3k", "<10k", ">10k">>

CARD_SPEND_BINS == <<0, 1, 10, 100, 300, 500, 1000, inf>>
CARD_SPEND_LABELS == <<"<1", "<10", "<100", "<300", "<500", "<1k", ">1k">>

\* pd.cut(x, bins, labels, include_lowest=True) with the default right=True:
\* x falls in the interval (bins[i], bins[i+1]], the first interval also
\* holds bins[1], and a value in no interval gets no bucket ("NaN").
cut(x, bins, labels) ==
    LET below == Cardinality({ i \in 1..Len(bins) : bins[i] < x })
        ids == IF x = bins[1] THEN 1 ELSE below
    IN  IF ids = 0 \/ ids = Len(bins) THEN "NaN" ELSE labels[ids]

\* astype(str) of a bucket column: a missing bucket reads 'nan'.
astype_str(g) == IF g = "NaN" THEN "nan" ELSE g

\* The row of cs with the key of row r, if any.
SpendingOf(cs, r) ==
    { cs[i] : i \in { j \in 1..Len(cs) : /\ cs[j].user_id = r.user_id
                                         /\ cs[j].year_month = r.year_month } }

\* One row of user_segments: the left merge of a grid row with the spending
\* table, fillna(0) on the two spending columns, the buckets, the segment.
segment_row(r, cs) ==
    LET m == SpendingOf(cs, r)
        spend == IF m = {} THEN 0 ELSE (CHOOSE x \in m : TRUE).total_card_spending
        count == IF m = {} THEN 0 ELSE (CHOOSE x \in m : TRUE).card_tx_count
        bg == cut(r.end_balance, BALANCE_BINS, BALANCE_LABELS)
        sg == cut(spend, CARD_SPEND_BINS, CARD_SPEND_LABELS)
    IN  [user_id |-> r.user_id, year_month |-> r.year_month,
         end_balance |-> r.end_balance,
         total_card_spending |-> spend, card_tx_count |-> count,
         balance_group |-> bg, spending_group |-> sg,
         segment |-> "B:" \o astype_str(bg) \o "_S:" \o astype_str(sg)]

RECURSIVE segment_rows(_, _, _)
segment_rows(mb, cs, n) ==
    IF n = 0 THEN <<>>
    ELSE Append(segment_rows(mb, cs, n - 1), segment_row(mb[n], cs))

\* The table segment_users_monthly returns for the two monthly tables.
segment_users_monthly(mb, cs) == segment_rows(mb, cs, Len(mb))

\* ------------------------------------------------ the pipeline on a ledger
\* The analyzer builds the processor from the project's rules file, reads
\* the ledger, computes the balances and segments the processed table.
InitGrid ==
    /\ last_tx = <<>>
    /\ first_run = <<>>
    /\ rules_file = ProjectRules
    /\ rules_dict = <<>>
    /\ df = <<>>
    /\ processed = <<>>
    /\ bpc = "new"
    /\ columns = RequiredColumns
    /\ error = "None"
    /\ monthly_balances = <<>>
    /\ monthly_card_spending = <<>>
    /\ user_segments = <<>>
    /\ spc = "new"
    /\ thresholds = DEFAULT_THRESHOLDS
    /\ user_id = 0
    /\ row = NoRow
    /\ qualified = "None"
    /\ prev_tier = "None"
    /\ results = <<>>
    /\ tiers_df = <<>>
    /\ counts = <<>>
    /\ tpc = "idle"
    /\ reward_params = DEFAULT_REWARD_PARAMS
    /\ rewards_df = <<>>

\* One more row of the ledger is read; the ledger file lists the
\* transactions in chronological order.
ReadLedger ==
    /\ bpc = "ready"
    /\ Len(df) < MaxLedger
    /\ \E ts \in LedgerStamps, k \in LedgerKinds :
          /\ IF df = <<>> THEN TRUE ELSE df[Len(df)].created_at <= ts
          /\ df' = Append(df, [user_id |-> k[1], currency |-> k[2],
                               created_at |-> ts, activity_type |-> k[3],
                               side |-> k[4], status |-> k[5], amount |-> k[6]])
    /\ UNCHANGED <<rules_file, rules_dict, processed, bpc, columns, error,
                   tierVars, segVars, runVars>>

\* Mutant of SameTieOrder: the order the sort leaves tied rows in changes
\* from one run to the next.
SameTieOrder_Any(pick) == TRUE

\* The sort is an algorithm without random choices: which of the tied rows
\* it puts last is open, but sorting the same groups again on the same
\* installation takes the same rows again.
SameTieOrder(pick) == last_tx = <<>> \/ pick = last_tx

\* MonthlyUserSegmentation(df).segment_users_monthly(): a monthly table that
\* is still None is computed first, then the two are merged and bucketed.
\* calculate_monthly_balances needs a settled eUSD row (period_range of an
\* empty column fails).
SegmentUsersMonthly ==
    /\ spc = "new"
    /\ \/ monthly_balances # <<>>
       \/ bpc = "done" /\ eusd_df(processed) # <<>>
    /\ \E pick \in LastTxPicks(processed) :
          /\ SameTieOrder(pick)
          /\ last_tx' = pick
          /\ LET mb == IF monthly_balances = <<>>
                         THEN calculate_monthly_balances(processed, pick)
                         ELSE monthly_balances
                 cs == IF monthly_card_spending = <<>>
                         THEN calculate_monthly_card_spending(processed)
                         ELSE monthly_card_spending
             IN  /\ monthly_balances' = mb
                 /\ monthly_card_spending' = cs
                 /\ user_segments' = segment_users_monthly(mb, cs)
    /\ spc' = "done"
    /\ UNCHANGED <<tierVars, balVars, runVars>>

NextGrid == Construct \/ ReadLedger \/ CalculateBalances \/ SegmentUsersMonthly

SpecGrid == InitGrid /\ [][NextGrid]_vars

\* =================================================== Monthly Grid: properties
\* The rows of the grid with key (u, m).
GridRows(u, m) ==
    { i \in 1..Len(monthly_balances) :
        /\ monthly_balances[i].user_id = u
        /\ monthly_balances[i].year_month = m }

\* The users present in the balance engine output.
ProcessedUsers == { processed[p].user_id : p \in 1..Len(processed) }

\* The settled eUSD rows of user u dated in month m.
SettledEusd(u, m) ==
    { p \in 1..Len(processed) :
        /\ processed[p].user_id = u
        /\ to_period(processed[p].created_at) = m
        /\ processed[p].currency = "eUSD"
        /\ processed[p].status = "settled" }

\* C11 (grid density): for every user present in the balance engine output,
\* a user with no settled eUSD transaction included, and every month from the
\* first to the last month of the grid's range, the grid returned by
\* calculate_monthly_balances holds exactly one row, and the rows of a user
\* with no settled eUSD transaction have end_balance 0.
C11_GridDensity ==
    (spc = "done" /\ bpc = "done") =>
        \A u \in ProcessedUsers, m \in all_months(processed) :
            /\ Cardinality(GridRows(u, m)) = 1
            /\ (\A k \in all_months(processed) : SettledEusd(u, k) = {}) =>
                   \A i \in GridRows(u, m) : monthly_balances[i].end_balance = 0

\* C12 (forward fill): a grid row of a month with no settled eUSD transaction
\* of its user carries the end_balance of the same user's row of the month
\* before; it is 0 when the user has no settled eUSD transaction in that
\* month or any earlier one (never filled from a later month).
C12_ForwardFill ==
    (spc = "done" /\ bpc = "done") =>
        \A i \in 1..Len(monthly_balances) :
            LET r == monthly_balances[i]
            IN  SettledEusd(r.user_id, r.year_month) = {} =>
                  /\ \A j \in GridRows(r.user_id, r.year_month - 1) :
                         r.end_balance = monthly_balances[j].end_balance
                  /\ (\A m \in all_months(processed) :
                          m <= r.year_month => SettledEusd(r.user_id, m) = {})
                       => r.end_balance = 0

\* A balance other than 0 is carried into a month without transactions, and
\* a user whose first settled eUSD transaction comes later, with a balance
\* other than 0, has 0 in the month before.
C12_Witness ==
    /\ spc = "done" /\ bpc = "done"
    /\ \E i \in 1..Len(monthly_balances) :
          LET r == monthly_balances[i]
          IN  /\ SettledEusd(r.user_id, r.year_month) = {}
              /\ r.end_balance # 0
              /\ GridRows(r.user_id, r.year_month - 1) # {}
    /\ \E i \in 1..Len(monthly_balances) :
          LET r == monthly_balances[i]
          IN  /\ SettledEusd(r.user_id, r.year_month) = {}
              /\ r.end_balance = 0
              /\ \E j \in GridRows(r.user_id, r.year_month + 1) :
                    monthly_balances[j].end_balance # 0

\* C13 (month-end balance): for every (user, month) with a settled eUSD
\* transaction, the grid's end_balance is the running balance of a settled
\* eUSD transaction of that user and month that no other settled eUSD
\* transaction of the user and month follows in time.
C13_LastSettledBalance ==
    (spc = "done" /\ bpc = "done") =>
        \A i \in 1..Len(monthly_balances) :
            LET r == monthly_balances[i]
                g == SettledEusd(r.user_id, r.year_month)
            IN  g # {} =>
                  \E p \in g :
                      /\ \A q \in g : processed[q].created_at <= processed[p].created_at
                      /\ r.end_balance = processed[p].balance

\* A month with two settled eUSD transactions at different times and with
\* different running balances, followed in the same month by a transaction
\* of the same user that is not settled.
C13_Witness ==
    /\ spc = "done" /\ bpc = "done"
    /\ \E i \in 1..Len(monthly_balances) :
          LET r == monthly_balances[i]
              g == SettledEusd(r.user_id, r.year_month)
          IN  /\ \E p, q \in g :
                    /\ processed[p].created_at < processed[q].created_at
                    /\ processed[p].balance # processed[q].balance
              /\ \E n \in 1..Len(processed) :
                    /\ processed[n].user_id = r.user_id
                    /\ processed[n].status # "settled"
                    /\ to_period(processed[n].created_at) = r.year_month
                    /\ \A q \in g : processed[q].created_at <= processed[n].created_at

\* The settled eUSD card transactions of user u with side 'debit' or
\* 'hold_captured' dated in month m.
CardTx(u, m) ==
    { p \in SettledEusd(u, m) :
        /\ processed[p].activity_type = "card"
        /\ processed[p].side \in {"debit", "hold_captured"} }

RECURSIVE SumAmountAt(_)
SumAmountAt(S) ==
    IF S = {} THEN 0
    ELSE LET p == CHOOSE x \in S : TRUE
         IN  processed[p].amount + SumAmountAt(S \ {p})

\* C14 as stated: total_card_spending and card_tx_count of a user-month of
\* the segmented table are the sum of the amounts and the number of the
\* user's settled eUSD card debits and captured holds of that month, and
\* (0, 0) without any.
C14_SpendIsSumOfAmounts ==
    (spc = "done" /\ bpc = "done") =>
        \A i \in 1..Len(user_segments) :
            LET r == user_segments[i]
                g == CardTx(r.user_id, r.year_month)
            IN  /\ r.total_card_spending = SumAmountAt(g)
                /\ r.card_tx_count = Cardinality(g)

\* C14 (amended): total_card_spending is the absolute value of the sum of
\* those amounts (the sum itself when the amounts are non-negative) and
\* card_tx_count their number, of that month only; a user-month without any
\* has (0, 0), whatever the month before had.
C14_SpendIsAbsSumOfAmounts ==
    (spc = "done" /\ bpc = "done") =>
        \A i \in 1..Len(user_segments) :
            LET r == user_segments[i]
                g == CardTx(r.user_id, r.year_month)
            IN  /\ r.total_card_spending = abs(SumAmountAt(g))
                /\ r.card_tx_count = Cardinality(g)
                /\ g = {} => r.total_card_spending = 0 /\ r.card_tx_count = 0

\* A user-month with card spend is followed by a month of the same user
\* without card transactions, whose row has (0, 0).
C14_Witness ==
    /\ spc = "done" /\ bpc = "done"
    /\ \E i, j \in 1..Len(user_segments) :
          /\ user_segments[i].user_id = user_segments[j].user_id
          /\ user_segments[j].year_month = user_segments[i].year_month + 1
          /\ user_segments[i].card_tx_count > 0
          /\ user_segments[i].total_card_spending > 0
          /\ CardTx(user_segments[j].user_id, user_segments[j].year_month) = {}
          /\ user_segments[j].card_tx_count = 0
          /\ user_segments[j].total_card_spending = 0

\* =================================================== Segment Classifier: properties
\* The label of the right-open bucket [bins[i], bins[i+1]) that holds x.
RightOpenBucket(x, bins, labels) ==
    labels[CHOOSE i \in 1..Len(labels) : bins[i] <= x /\ x < bins[i + 1]]

\* C15 (right-open buckets): the bucket of a non-negative end_balance or
\* total_card_spending is the one whose right-open interval
\* [lower, upper) holds the value: a value equal to an interior breakpoint
\* is in the bucket that starts there, and 0 is in the lowest bucket.
C15_RightOpenBuckets ==
    spc = "done" =>
        \A i \in 1..Len(user_segments) :
            LET r == user_segments[i]
            IN  /\ r.end_balance >= 0 =>
                     r.balance_group =
                         RightOpenBucket(r.end_balance, BALANCE_BINS, BALANCE_LABELS)
                /\ r.total_card_spending >= 0 =>
                     r.spending_group =
                         RightOpenBucket(r.total_card_spending, CARD_SPEND_BINS,
                                         CARD_SPEND_LABELS)

\* The labels of a label list.
Labels(labels) == { labels[i] : i \in 1..Len(labels) }

\* C16 (total classification): every row of the segmented table has one of
\* the seven balance labels and one of the seven spend labels, a negative
\* end_balance has the lowest balance label, and the segment is built from
\* these two labels.
C16_TotalClassification ==
    spc = "done" =>
        \A i \in 1..Len(user_segments) :
            LET r == user_segments[i]
            IN  /\ r.balance_group \in Labels(BALANCE_LABELS)
                /\ r.spending_group \in Labels(CARD_SPEND_LABELS)
                /\ r.end_balance < 0 => r.balance_group = BALANCE_LABELS[1]
                /\ r.segment = "B:" \o r.balance_group \o "_S:" \o r.spending_group

\* =================================================== Rewards (assign_tiers)
\* Largest number of rows of user_segments in a call that computes rewards.
MaxSegRows == 4

\* <<total_card_spending, end_balance>> of the rows of user_segments.
SegmentInputs == { <<0, 0>>, <<300, 50>>, <<300, 7>>, <<0, 2000>>, <<0, -80>> }

\* reward_params.get(key, 0.0)
get(d, key, default) == IF key \in DOMAIN d THEN d[key] ELSE default

\* extra_yield_base = min(bal, 1000)
extra_yield_base_NoCap(bal) == bal
extra_yield_base_Above(bal) == bal - 1000
extra_yield_base(bal) == IF bal < 1000 THEN bal ELSE 1000

\* rewards_usd = cashback_pct * spend + yield_pct * extra_yield_base, for
\* the merged row r, in units of 1/PctScale USD.
rewards_usd(r, params) ==
    get(params, r.tier \o "_cashback_pct", 0) * r.total_card_spending
    + get(params, r.tier \o "_yield_pct", 0) * extra_yield_base(r.end_balance)

\* round(x, 2): the closest multiple of a cent; when x is half-way between
\* two cents the float that holds x decides, so either one can result.
round2_Exact(x) == {x}
round2(x) ==
    LET cent == PctScale \div 100
        lo == x - (x % cent)
    IN  IF x % cent = 0 THEN {x}
        ELSE IF 2 * (x % cent) < cent THEN {lo}
        ELSE IF 2 * (x % cent) > cent THEN {lo + cent}
        ELSE {lo, lo + cent}

\* tiers_df.merge(user_segments, on=['user_id','year_month'], how='left'):
\* row n of tiers_df with the columns of the row of user_segments of its key.
merged_row(tdf, us, n) ==
    LET m == CHOOSE i \in 1..Len(us) : /\ us[i].user_id = tdf[n].user_id
                                       /\ us[i].year_month = tdf[n].year_month
    IN  [user_id |-> tdf[n].user_id, year_month |-> tdf[n].year_month,
         tier |-> tdf[n].tier,
         total_card_spending |-> us[m].total_card_spending,
         end_balance |-> us[m].end_balance]

\* The tables the loop over merged can build from its first n rows.
RECURSIVE rewards_rows(_, _, _, _)
rewards_rows(tdf, us, params, n) ==
    IF n = 0 THEN { <<>> }
    ELSE LET r == merged_row(tdf, us, n)
         IN  { Append(t, [user_id |-> r.user_id, year_month |-> r.year_month,
                          rewards_usd |-> v]) :
                 t \in rewards_rows(tdf, us, params, n - 1),
                 v \in round2(rewards_usd(r, params)) }

InitReward ==
    /\ last_tx = <<>>
    /\ first_run = <<>>
    /\ thresholds = DEFAULT_THRESHOLDS
    /\ reward_params \in RewardConfigs
    /\ user_id = 0
    /\ row = NoRow
    /\ qualified = "None"
    /\ prev_tier = "None"
    /\ results = <<>>
    /\ tiers_df = <<>>
    /\ counts = <<>>
    /\ rewards_df = <<>>
    /\ tpc = "loop"
    /\ user_segments = <<>>
    /\ monthly_balances = <<>>
    /\ monthly_card_spending = <<>>
    /\ spc = "idle"
    /\ rules_file = <<>>
    /\ rules_dict = <<>>
    /\ df = <<>>
    /\ processed = <<>>
    /\ bpc = "idle"
    /\ columns = RequiredColumns
    /\ error = "None"

\* The outer loop enters the next group and iterates its first row; the
\* rows of user_segments are those of a monthly grid: every user has one
\* row per month, from the first month on.
SegFirstRow ==
    /\ tpc = "loop"
    /\ Len(results) < MaxSegRows
    /\ \E u \in Users, x \in SegmentInputs :
          LET r == [user_id |-> u, year_month |-> 1,
                    total_card_spending |-> x[1], end_balance |-> x[2]]
          IN  /\ u > user_id
              /\ LoopBody(r, "None")
              /\ user_segments' = Append(user_segments, r)
    /\ UNCHANGED <<thresholds, tiers_df, counts, tpc, reward_params, rewards_df,
                   balVars, monthly_balances, monthly_card_spending, spc,
                   last_tx, runVars>>

\* The inner loop iterates the row of the next month of the current group.
SegNextRow ==
    /\ tpc = "loop"
    /\ user_id # 0
    /\ Len(results) < MaxSegRows
    /\ \E x \in SegmentInputs :
          LET r == [user_id |-> user_id, year_month |-> row.year_month + 1,
                    total_card_spending |-> x[1], end_balance |-> x[2]]
          IN  /\ LoopBody(r, prev_tier)
              /\ user_segments' = Append(user_segments, r)
    /\ UNCHANGED <<thresholds, tiers_df, counts, tpc, reward_params, rewards_df,
                   balVars, monthly_balances, monthly_card_spending, spc,
                   last_tx, runVars>>

\* Both loops are exhausted: tiers_df, counts and rewards_df are built and
\* returned.
ReturnRewards ==
    /\ tpc = "loop"
    /\ results # <<>>
    /\ tiers_df' = results
    /\ counts' = TierCounts(results)
    /\ rewards_df' \in rewards_rows(results, user_segments, reward_params,
                                    Len(results))
    /\ tpc' = "done"
    /\ UNCHANGED <<thresholds, user_id, row, qualified, prev_tier, results,
                   reward_params, balVars, segVars, runVars>>

NextReward == SegFirstRow \/ SegNextRow \/ ReturnRewards

SpecReward == InitReward /\ [][NextReward]_vars

\* =================================================== Rewards: properties
\* The row of user_segments of user-month n of tiers_df.
SegmentOf(n) ==
    user_segments[CHOOSE i \in 1..Len(user_segments) :
                      /\ user_segments[i].user_id = tiers_df[n].user_id
                      /\ user_segments[i].year_month = tiers_df[n].year_month]

\* A rate of reward_params, 0 for a tier the dict has no rate for.
Rate(tier, kind) ==
    IF (tier \o kind) \in DOMAIN reward_params THEN reward_params[tier \o kind] ELSE 0

\* cashback_pct[tier] * total_card_spending
\*   + yield_pct[tier] * min(end_balance, 1000)
\* for user-month n, with its assigned tier (units of 1/PctScale USD).
RewardFormula(n) ==
    LET seg == SegmentOf(n)
        capped == IF seg.end_balance <= 1000 THEN seg.end_balance ELSE 1000
    IN  Rate(tiers_df[n].tier, "_cashback_pct") * seg.total_card_spending
        + Rate(tiers_df[n].tier, "_yield_pct") * capped

\* C17 as stated: the reward of every user-month equals the formula, and is
\* 0 for a user-month assigned tier1 under the default reward parameters.
C17_RewardEqualsFormula ==
    tpc = "done" =>
        /\ Len(rewards_df) = Len(tiers_df)
        /\ \A n \in 1..Len(rewards_df) :
              /\ rewards_df[n].user_id = tiers_df[n].user_id
              /\ rewards_df[n].year_month = tiers_df[n].year_month
              /\ rewards_df[n].rewards_usd = RewardFormula(n)
              /\ (reward_params = DEFAULT_REWARD_PARAMS /\ tiers_df[n].tier = "tier1")
                    => rewards_df[n].rewards_usd = 0

\* C17 (amended): the reward of every user-month is the formula rounded to
\* the cent (a whole number of cents at most half a cent from the formula),
\* and is 0 for a user-month assigned tier1 under the default parameters.
C17_RewardIsFormulaRounded ==
    tpc = "done" =>
        /\ Len(rewards_df) = Len(tiers_df)
        /\ \A n \in 1..Len(rewards_df) :
              /\ rewards_df[n].user_id = tiers_df[n].user_id
              /\ rewards_df[n].year_month = tiers_df[n].year_month
              /\ rewards_df[n].rewards_usd % (PctScale \div 100) = 0
              /\ 2 * abs(rewards_df[n].rewards_usd - RewardFormula(n))
                    <= PctScale \div 100
              /\ (reward_params = DEFAULT_REWARD_PARAMS /\ tiers_df[n].tier = "tier1")
                    => rewards_df[n].rewards_usd = 0

\* One call returns a user-month whose assigned tier is above its qualifying
\* tier with a reward other than 0, one whose balance is above the cap, one
\* whose formula is not a whole number of cents, and, under the default
\* parameters, one assigned tier1.
C17_Witness ==
    /\ tpc = "done"
    /\ reward_params = DEFAULT_REWARD_PARAMS
    /\ \E n \in 1..Len(rewards_df) :
          /\ Rank(tiers_df[n].tier) > Rank(_qualify_tier(SegmentOf(n), thresholds))
          /\ rewards_df[n].rewards_usd # 0
    /\ \E n \in 1..Len(rewards_df) :
          SegmentOf(n).end_balance > 1000 /\ rewards_df[n].rewards_usd > 0
    /\ \E n \in 1..Len(rewards_df) : rewards_df[n].rewards_usd # RewardFormula(n)
    /\ \E n \in 1..Len(rewards_df) : tiers_df[n].tier = "tier1"

\* The rates of reward_params are all non-negative.
RatesNonNegative == \A k \in DOMAIN reward_params : reward_params[k] >= 0

\* C18 (reward non-negativity): under non-negative rates, the reward of
\* every user-month whose total_card_spending and end_balance are
\* non-negative is >= 0.
C18_RewardNonNegative ==
    (tpc = "done" /\ RatesNonNegative) =>
        \A n \in 1..Len(rewards_df) :
            (SegmentOf(n).total_card_spending >= 0 /\ SegmentOf(n).end_balance >= 0)
                => rewards_df[n].rewards_usd >= 0

\* One call returns a positive reward for a user-month with non-negative
\* spend and balance, and a negative reward for a user-month with a negative
\* balance.
C18_Witness ==
    /\ tpc = "done" /\ RatesNonNegative
    /\ \E n \in 1..Len(rewards_df) :
          /\ SegmentOf(n).total_card_spending >= 0
          /\ SegmentOf(n).end_balance >= 0
          /\ rewards_df[n].rewards_usd > 0
    /\ \E n \in 1..Len(rewards_df) :
          SegmentOf(n).end_balance < 0 /\ rewards_df[n].rewards_usd < 0

\* =================================================== Balance Engine: error handling
\* The effect symbols validate_rules_file accepts.
valid_effects == {"+", "-", "0"}

\* The rows of a rules file whose effect symbol is not one of them.
OffendingRows(file) == { i \in 1..Len(file) : file[i].effect \notin valid_effects }

\* C19 (malformed effect symbols): a rule table with a row whose effect
\* symbol is outside {'+', '-', '0'} is rejected at load time: the
\* construction of the processor completes, and lookups and balances are
\* answered, only from a rules file without such a row.
C19_MalformedRulesRejected ==
    bpc \in {"ready", "done"} => OffendingRows(rules_file) = {}

\* ------------------------------------------------ tables lacking a column
\* Largest number of rows of a transaction table that lacks a column.
MaxPartialTx == 2

\* The tables handed to calculate_balances: complete, or lacking one of the
\* columns it reads.
ColumnSets == {RequiredColumns} \cup { RequiredColumns \ {c} : c \in RequiredColumns }

InitSchema ==
    /\ last_tx = <<>>
    /\ first_run = <<>>
    /\ rules_file = ProjectRules
    /\ rules_dict = <<>>
    /\ df = <<>>
    /\ processed = <<>>
    /\ bpc = "new"
    /\ columns \in ColumnSets
    /\ error = "None"
    /\ monthly_balances = <<>>
    /\ monthly_card_spending = <<>>
    /\ user_segments = <<>>
    /\ spc = "idle"
    /\ thresholds = DEFAULT_THRESHOLDS
    /\ user_id = 0
    /\ row = NoRow
    /\ qualified = "None"
    /\ prev_tier = "None"
    /\ results = <<>>
    /\ tiers_df = <<>>
    /\ counts = <<>>
    /\ tpc = "idle"
    /\ reward_params = DEFAULT_REWARD_PARAMS
    /\ rewards_df = <<>>

\* One more row is read into a table that has the columns `columns` only.
ReadPartialRow ==
    /\ bpc = "ready"
    /\ Len(df) < MaxPartialTx
    /\ \E part \in TxPartitions, ts \in Timestamps, k \in TxKinds :
          LET r == [user_id |-> part[1], currency |-> part[2],
                    created_at |-> ts, activity_type |-> k[1],
                    side |-> k[2], status |-> k[3], amount |-> k[4]]
          IN  df' = Append(df, [c \in columns |-> r[c]])
    /\ UNCHANGED <<rules_file, rules_dict, processed, bpc, columns, error,
                   tierVars, segVars, runVars>>

NextSchema == Construct \/ ReadPartialRow \/ CalculateBalances

SpecSchema == InitSchema /\ [][NextSchema]_vars

\* C20 (missing column): when the table handed to calculate_balances lacks
\* one of the columns user_id, currency, created_at (the timestamp),
\* activity_type, side, amount or status, the call ends with an exception
\* (whatever its class) and returns no table.
C20_MissingColumnAborts ==
    (bpc = "done" /\ columns # RequiredColumns) =>
        /\ error # "None"
        /\ processed = <<>>

\* ---------------------------------------------------------------------
\* Properties of the hysteresis along the whole sequence of a user
\* (SpecReward, where user_segments keeps every row the loops have read).
\* ---------------------------------------------------------------------

\* The qualifying tier of the n-th row the loops have read.
QualifiedAt(n) == _qualify_tier(user_segments[n], thresholds)

Max(a, b) == IF a >= b THEN a ELSE b

\* C27: when the qualifying tier of a user is the same tier q in every
\* month after month m0, the tier assigned j months after m0 has rank
\* max(rank(q), rank(assigned(m0)) - j); so the assigned tier is q from
\* month m0 + max(0, rank(assigned(m0)) - rank(q)) on, and stays q.
C27_BoundedConvergence ==
    /\ Len(results) = Len(user_segments)
    /\ \A m0 \in 1..Len(results), k \in 1..Len(results) :
          LET j == user_segments[k].year_month - user_segments[m0].year_month
              q == QualifiedAt(k)
          IN  (/\ m0 < k
               /\ user_segments[m0].user_id = user_segments[k].user_id
               /\ \A l \in (m0 + 1)..k : QualifiedAt(l) = q)
              => /\ Rank(results[k].tier)
                       = Max(Rank(q), Rank(results[m0].tier) - j)
                 /\ j >= Max(0, Rank(results[m0].tier) - Rank(q))
                       => results[k].tier = q

\* C27 witness: a user seeded at tier4 qualifies for tier1 in the three
\* months that follow and is assigned tier3, tier2 and tier1 in them.
C27_Witness ==
    /\ Len(results) = 4
    /\ \A n \in 1..4 : results[n].user_id = results[1].user_id
    /\ \A n \in 2..4 : QualifiedAt(n) = "tier1"
    /\ results[1].tier = "tier4" /\ results[2].tier = "tier3"
    /\ results[3].tier = "tier2" /\ results[4].tier = "tier1"

\* The rank the hysteresis gives the n-th row, from the rows of the same
\* user up to the n-th only: tier4 on the user's first row, then the
\* qualifying tier when it is not below the rank of the month before, else
\* one rank below the month before but never below the qualifying tier.
RECURSIVE HysteresisRank(_)
HysteresisRank(n) ==
    IF n = 1 \/ user_segments[n - 1].user_id # user_segments[n].user_id
    THEN 4
    ELSE LET p == HysteresisRank(n - 1)
             q == Rank(QualifiedAt(n))
         IN  IF q >= p THEN q ELSE Max(q, p - 1)

\* C24: every input row read so far has exactly one tier row, with the
\* row's key, and its tier is a function of the rows of that user up to
\* that month only; so a tier assigned to an earlier month is the same
\* whatever later months are appended to the input, and the returned table
\* is the one the loops have built.
C24_AppendOnly ==
    /\ Len(results) = Len(user_segments)
    /\ \A n \in 1..Len(results) :
          /\ results[n].user_id = user_segments[n].user_id
          /\ results[n].year_month = user_segments[n].year_month
          /\ Rank(results[n].tier) = HysteresisRank(n)
    /\ tpc = "done" => tiers_df = results

\* C24 witness: the input of a user seeded at tier4 has been extended
\* by three later months; the tiers of the later months differ from the
\* tier of the first and the call has returned one row per input row.
C24_Witness ==
    /\ tpc = "done"
    /\ Len(tiers_df) = 4 /\ Len(user_segments) = 4
    /\ \A n \in 1..4 : tiers_df[n].user_id = tiers_df[1].user_id
    /\ tiers_df[1].tier = "tier4"
    /\ tiers_df[2].tier = "tier3"
    /\ tiers_df[3].tier = "tier4"
    /\ tiers_df[4].tier = "tier3"

\* C29: for every user-month the balance on which extra yield is paid is
\* within [0, 1000], also when end_balance is negative, so with
\* non-negative rates the yield part is not negative and the reward is
\* neither below its cashback part nor negative.
C29_YieldBaseWithinBounds ==
    tpc = "done" =>
        \A n \in 1..Len(rewards_df) :
            LET seg == SegmentOf(n)
                base == extra_yield_base(seg.end_balance)
                cashback == Rate(tiers_df[n].tier, "_cashback_pct")
                               * seg.total_card_spending
            IN  /\ base >= 0 /\ base <= 1000
                /\ RatesNonNegative =>
                      /\ rewards_usd(merged_row(tiers_df, user_segments, n),
                                     reward_params) >= cashback
                      /\ rewards_df[n].rewards_usd >= 0

\* ---------------------------------------------------------------------
\* Properties of the grid against the ledger (SpecGrid).
\* ---------------------------------------------------------------------

\* The calendar months the timestamps of the ledger fall in.
LedgerMonths == { to_period(ts) : ts \in LedgerStamps }

\* The users and the months that have a settled eUSD transaction.
SettledUsers == { u \in ProcessedUsers : \E m \in LedgerMonths : SettledEusd(u, m) # {} }
SettledMonths == { m \in LedgerMonths : \E u \in ProcessedUsers : SettledEusd(u, m) # {} }

\* C30: for every user with a settled eUSD transaction, the grid has
\* exactly one row for each calendar month from the earliest to the latest
\* month of any settled eUSD transaction of any user; no month of that range
\* is skipped and no (user, month) pair occurs twice.
C30_OneRowPerUserAndMonth ==
    (spc = "done" /\ bpc = "done") =>
        /\ \A u \in SettledUsers, m \in LedgerMonths :
              (/\ \E lo \in SettledMonths : lo <= m
               /\ \E hi \in SettledMonths : m <= hi)
              => Cardinality(GridRows(u, m)) = 1
        /\ \A i, j \in 1..Len(monthly_balances) :
              (/\ monthly_balances[i].user_id = monthly_balances[j].user_id
               /\ monthly_balances[i].year_month = monthly_balances[j].year_month)
              => i = j

\* C30 witness: the grid of two users spans a month in which nobody has a
\* settled eUSD transaction, between two months in which somebody has.
C30_Witness ==
    /\ spc = "done" /\ bpc = "done"
    /\ Cardinality(SettledUsers) = 2
    /\ \E m \in LedgerMonths :
          /\ m \notin SettledMonths
          /\ (m - 1) \in SettledMonths /\ (m + 1) \in SettledMonths
          /\ \A u \in SettledUsers : GridRows(u, m) # {}

\* The eUSD rows of user u dated in month m or an earlier month.
EusdUpTo(u, m) ==
    { p \in 1..Len(processed) :
        /\ processed[p].user_id = u
        /\ processed[p].currency = "eUSD"
        /\ to_period(processed[p].created_at) <= m }

RECURSIVE SumSignedAmount(_)
SumSignedAmount(S) ==
    IF S = {} THEN 0
    ELSE LET p == CHOOSE x \in S : TRUE
         IN  processed[p].signed_amount + SumSignedAmount(S \ {p})

MaxTableRows == 3

\* The months and the (total_card_spending, end_balance) pairs of the rows
\* of a caller's table; under the default thresholds the pairs qualify for
\* tier1, tier2 and tier4.
TableMonths == {1, 2, 3}
TableInputs == { <<0, 0>>, <<300, 50>>, <<0, 2000>> }

\* Mutant of SegKeyLess: the rows are ordered by user only.
SegKeyLess_ByUser(a, b) == a.user_id < b.user_id

\* Order of the sort key (user_id, year_month).
SegKeyLess(a, b) ==
    \/ a.user_id < b.user_id
    \/ a.user_id = b.user_id /\ a.year_month < b.year_month

\* The sorted table s with row r, which follows all rows of s in the input,
\* put behind every row whose key is not greater than its own.
InsertSegment(s, r) ==
    LET k == Cardinality({i \in 1..Len(s) : ~SegKeyLess(r, s[i])})
    IN  SubSeq(s, 1, k) \o <<r>> \o SubSeq(s, k + 1, Len(s))

RECURSIVE SortSegments(_, _)
SortSegments(t, n) ==
    IF n = 0 THEN <<>> ELSE InsertSegment(SortSegments(t, n - 1), t[n])

\* user_segments.sort_values(['user_id', 'year_month'])
sort_segments(t) == SortSegments(t, Len(t))

\* Mutant of tier_rows: prev_tier is set to None once, before the outer
\* loop, and not at the start of every group.
RECURSIVE tier_rows_NoReset(_, _, _)
tier_rows_NoReset(s, th, n) ==
    IF n = 0 THEN <<>>
    ELSE LET done == tier_rows_NoReset(s, th, n - 1)
             prev == IF n = 1 THEN "None" ELSE done[n - 1].tier
         IN  Append(done, [user_id |-> s[n].user_id,
                           year_month |-> s[n].year_month,
                           tier |-> AssignTier(prev, _qualify_tier(s[n], th))])

\* The list results after the two loops have iterated the first n rows of
\* the sorted table s: groupby yields the groups in ascending user_id with
\* their rows in table order, prev_tier is None on the first row of a group
\* and the tier of the row before on the others.
RECURSIVE tier_rows(_, _, _)
tier_rows(s, th, n) ==
    IF n = 0 THEN <<>>
    ELSE LET done == tier_rows(s, th, n - 1)
             prev == IF n = 1 \/ s[n - 1].user_id # s[n].user_id
                       THEN "None"
                       ELSE done[n - 1].tier
         IN  Append(done, [user_id |-> s[n].user_id,
                           year_month |-> s[n].year_month,
                           tier |-> AssignTier(prev, _qualify_tier(s[n], th))])

\* tiers_df of assign_tiers(us, thresholds=th).
assign_tiers(us, th) == tier_rows(sort_segments(us), th, Len(us))

\* round() is a function of the float it is given: a reward table t of a
\* run agrees with the table of an earlier run on every formula value the
\* two have in common.
SameRounding(t, tdf) ==
    first_run = <<>> \/
    \A n \in 1..Len(t), m \in 1..Len(first_run.rewards_df) :
        rewards_usd(merged_row(tdf, user_segments, n), reward_params)
          = rewards_usd(merged_row(first_run.tiers_df, first_run.user_segments, m),
                        reward_params)
        => t[n].rewards_usd = first_run.rewards_df[m].rewards_usd

\* A call assign_tiers(user_segments, thresholds, reward_params) from the
\* sort to the return.
AssignTiers ==
    /\ tpc = "idle"
    /\ user_segments # <<>>
    /\ LET sorted == sort_segments(user_segments)
           tdf == assign_tiers(user_segments, thresholds)
           last == Len(sorted)
       IN  /\ user_id' = sorted[last].user_id
           /\ row' = [user_id |-> sorted[last].user_id,
                      year_month |-> sorted[last].year_month,
                      total_card_spending |-> sorted[last].total_card_spending,
                      end_balance |-> sorted[last].end_balance]
           /\ qualified' = _qualify_tier(sorted[last], thresholds)
           /\ prev_tier' = tdf[last].tier
           /\ results' = tdf
           /\ tiers_df' = tdf
           /\ counts' = TierCounts(tdf)
           /\ rewards_df' \in
                 { t \in rewards_rows(tdf, user_segments, reward_params, last) :
                     SameRounding(t, tdf) }
    /\ tpc' = "done"
    /\ UNCHANGED <<thresholds, reward_params, balVars, segVars, runVars>>

\* A caller's table before the call: rows in any order.
InitTable ==
    /\ last_tx = <<>>
    /\ first_run = <<>>
    /\ thresholds = DEFAULT_THRESHOLDS
    /\ reward_params = DEFAULT_REWARD_PARAMS
    /\ user_id = 0
    /\ row = NoRow
    /\ qualified = "None"
    /\ prev_tier = "None"
    /\ results = <<>>
    /\ tiers_df = <<>>
    /\ counts = <<>>
    /\ rewards_df = <<>>
    /\ tpc = "idle"
    /\ user_segments = <<>>
    /\ monthly_balances = <<>>
    /\ monthly_card_spending = <<>>
    /\ spc = "idle"
    /\ rules_file = <<>>
    /\ rules_dict = <<>>
    /\ df = <<>>
    /\ processed = <<>>
    /\ bpc = "idle"
    /\ columns = RequiredColumns
    /\ error = "None"

\* The caller's table gets one more row, anywhere in the order of the keys;
\* the keys (user_id, year_month) of the table are unique.
AddSegmentRow ==
    /\ tpc = "idle"
    /\ spc = "idle"
    /\ Len(user_segments) < MaxTableRows
    /\ \E u \in Users, ym \in TableMonths, x \in TableInputs :
          /\ \A i \in 1..Len(user_segments) :
                ~(user_segments[i].user_id = u /\ user_segments[i].year_month = ym)
          /\ user_segments' = Append(user_segments,
                [user_id |-> u, year_month |-> ym,
                 total_card_spending |-> x[1], end_balance |-> x[2]])
    /\ UNCHANGED <<tierVars, balVars, monthly_balances, monthly_card_spending, spc,
                   last_tx, runVars>>

NextTable == AddSegmentRow \/ AssignTiers

SpecTable == InitTable /\ [][NextTable]_vars

\* The table with its rows in the order p, a permutation of the positions.
Permuted(t, p) == [i \in 1..Len(t) |-> t[p[i]]]

\* C23: whatever the order of the input rows, the months of every user are
\* visited in ascending order: every permutation of an input with unique
\* keys gives the same tier for every (user, month), and the rows of a user
\* in tiers_df are in strictly ascending year_month.
C23_PermutationInvariant ==
    (tpc = "done" /\ spc = "idle") =>
        /\ \A p \in Permutations(1..Len(user_segments)) :
              assign_tiers(Permuted(user_segments, p), thresholds) = tiers_df
        /\ \A i, j \in 1..Len(tiers_df) :
              (i < j /\ tiers_df[i].user_id = tiers_df[j].user_id)
              => tiers_df[i].year_month < tiers_df[j].year_month

\* C23 witness: the input lists a later month of a user before an earlier
\* one, and the second user before the first; the call has seeded the
\* earlier month at tier4 and let the later month descend from it.
C23_Witness ==
    /\ tpc = "done" /\ spc = "idle"
    /\ Len(user_segments) = 3
    /\ user_segments[1].user_id = 2 /\ user_segments[2].user_id = 1
    /\ user_segments[3].user_id = 2
    /\ user_segments[1].year_month > user_segments[3].year_month
    /\ \E i, j \in 1..Len(tiers_df) :
          /\ tiers_df[i].user_id = 2 /\ tiers_df[j].user_id = 2
          /\ tiers_df[i].year_month = user_segments[3].year_month
          /\ tiers_df[j].year_month = user_segments[1].year_month
          /\ tiers_df[i].tier = "tier4" /\ tiers_df[j].tier = "tier3"

\* The rows of user u in a table.
RowsOf(t, u) == SelectSeq(t, LAMBDA r : r.user_id = u)

\* C22: the tier sequence of a user depends on the rows of that user only:
\* it is the sequence assign_tiers gives when the rows of all other users
\* are removed from the input, whatever those rows are and wherever they
\* stand in the input.
C22_UsersIndependent ==
    (tpc = "done" /\ spc = "idle") =>
        \A u \in Users :
            RowsOf(tiers_df, u) = assign_tiers(RowsOf(user_segments, u), thresholds)

\* C22 witness: the user iterated first ends below tier4 and the user
\* iterated next, whose rows the input interleaves with the first user's,
\* starts at tier4 and qualifies for tier1.
C22_Witness ==
    /\ tpc = "done" /\ spc = "idle"
    /\ Len(user_segments) = 3
    /\ user_segments[1].user_id = 1 /\ user_segments[2].user_id = 2
    /\ user_segments[3].user_id = 1
    /\ Len(RowsOf(tiers_df, 1)) = 2 /\ RowsOf(tiers_df, 1)[2].tier = "tier3"
    /\ RowsOf(tiers_df, 2)[1].tier = "tier4"
    /\ _qualify_tier(RowsOf(user_segments, 2)[1], thresholds) = "tier1"

\* ---------------------------------------------------------------------
\* The composed pipeline (SpecPipeline): the ledger goes through
\* calculate_balances, the monthly grid and the segmentation, and the
\* segmented table through assign_tiers; the whole pipeline can then be run
\* once more on the same files.
\* ---------------------------------------------------------------------

\* The pipeline is started again on the same rules file and the same
\* ledger: the tables of the finished run are kept aside and every object
\* is built anew.
RunAgain ==
    /\ bpc = "done" /\ spc = "done" /\ tpc = "done"
    /\ first_run = <<>>
    /\ first_run' = [processed |-> processed,
                     monthly_balances |-> monthly_balances,
                     monthly_card_spending |-> monthly_card_spending,
                     user_segments |-> user_segments,
                     tiers_df |-> tiers_df,
                     counts |-> counts,
                     rewards_df |-> rewards_df]
    /\ rules_dict' = <<>>
    /\ processed' = <<>>
    /\ bpc' = "new"
    /\ monthly_balances' = <<>>
    /\ monthly_card_spending' = <<>>
    /\ user_segments' = <<>>
    /\ spc' = "new"
    /\ user_id' = 0
    /\ row' = NoRow
    /\ qualified' = "None"
    /\ prev_tier' = "None"
    /\ results' = <<>>
    /\ tiers_df' = <<>>
    /\ counts' = <<>>
    /\ rewards_df' = <<>>
    /\ tpc' = "idle"
    /\ UNCHANGED <<rules_file, df, columns, error, thresholds, reward_params,
                   last_tx>>

MaxPipelineLedger == 2

\* The ledger file, of at most MaxPipelineLedger rows, is read in the first
\* run; the second run is given the same file.
NextPipeline ==
    \/ Construct
    \/ (first_run = <<>> /\ Len(df) < MaxPipelineLedger /\ ReadLedger)
    \/ CalculateBalances
    \/ SegmentUsersMonthly
    \/ AssignTiers
    \/ RunAgain

SpecPipeline == InitGrid /\ [][NextPipeline]_vars

\* The rows of tiers_df of user u.
TierRows(u) == { i \in 1..Len(tiers_df) : tiers_df[i].user_id = u }

\* C25: in the composed pipeline the tier sequence of every user starts at
\* the earliest month in which that user has a settled eUSD transaction,
\* and that month is the one seeded at tier4: a user whose first
\* transaction comes after the first month of the grid has no tier row,
\* and no decay, in the months before it.
C25_SeededAtFirstTransaction ==
    (bpc = "done" /\ spc = "done" /\ tpc = "done") =>
        \A u \in SettledUsers :
            \A i \in TierRows(u) :
                LET m == tiers_df[i].year_month
                    first == \A k \in LedgerMonths : k < m => SettledEusd(u, k) = {}
                IN  /\ \E k \in LedgerMonths : k <= m /\ SettledEusd(u, k) # {}
                    /\ (first /\ SettledEusd(u, m) # {}) => tiers_df[i].tier = "tier4"

====
